---- MODULE Spec2Model ----
(***************************************************************************)
(* Model of the row-expansion transform (src/src/transform.py) and of the  *)
(* feature conversion and batched upload loop (src/src/arcgis_upload.py).  *)
(*                                                                         *)
(* Python values are tagged records [t, n, e, s]:                          *)
(*   t = "none"   None                                                     *)
(*   t = "int"    the integer n * 10^e (e = 0 but for epoch milliseconds,  *)
(*                which are beyond the integers of the model checker)      *)
(*   t = "float"  the float n / 10^e, with no trailing zero in n if e > 0  *)
(*   t = "nan"    the float NaN (what pandas yields for an empty cell)     *)
(*   t = "str"    the string whose characters are the sequence s           *)
(* A dict is a function from its key set (strings) to such values.  The    *)
(* Cyrillic column names of the source are written in Latin letters, as    *)
(* the natural-language specification does ("Value 1" .. "Value 10").      *)
(***************************************************************************)
EXTENDS Integers, Sequences, FiniteSets, TLC

VARIABLES rows, pos, result, ret, pc,
          df, fpos, features, printed, fpc,
          start, requests, reports, upc

tvars == <<rows, pos, result, ret, pc>>
fvars == <<df, fpos, features, printed, fpc>>
uvars == <<start, requests, reports, upc>>
vars == <<tvars, fvars, uvars>>

(***************************************************************************)
(* Bounds of the model.                                                    *)
(***************************************************************************)
MaxCount == 3
MaxNeg == 1
MaxRows == 2

(***************************************************************************)
(* Python values.                                                          *)
(***************************************************************************)
NoneV == [t |-> "none", n |-> 0, e |-> 0, s |-> <<>>]
NanV == [t |-> "nan", n |-> 0, e |-> 0, s |-> <<>>]
IntV(k) == [t |-> "int", n |-> k, e |-> 0, s |-> <<>>]
StrV(chars) == [t |-> "str", n |-> 0, e |-> 0, s |-> chars]

\* The integer of seconds * 1000.
MillisV(seconds) == [t |-> "int", n |-> seconds, e |-> 3, s |-> <<>>]

RECURSIVE FloatV(_, _)
FloatV(num, scale) ==
  IF scale > 0 /\ num % 10 = 0 THEN FloatV(num \div 10, scale - 1)
  ELSE [t |-> "float", n |-> num, e |-> scale, s |-> <<>>]

\* bool(v): None, 0 and "" are falsy; NaN and every other value are truthy.
truthy(v) ==
  CASE v.t = "none" -> FALSE
    [] v.t = "int" -> v.n # 0
    [] v.t = "float" -> v.n # 0
    [] v.t = "str" -> v.s # <<>>
    [] OTHER -> TRUE

\* str.strip(): leading and trailing whitespace removed.
RECURSIVE lstrip(_)
lstrip(s) == IF s # <<>> /\ Head(s) = " " THEN lstrip(Tail(s)) ELSE s

RECURSIVE rstrip(_)
rstrip(s) ==
  IF s # <<>> /\ s[Len(s)] = " " THEN rstrip(SubSeq(s, 1, Len(s) - 1)) ELSE s

strip(s) == rstrip(lstrip(s))

DigitChars == {"0", "1", "2", "3", "4", "5", "6", "7", "8", "9"}

DigitVal(c) ==
  CASE c = "0" -> 0 [] c = "1" -> 1 [] c = "2" -> 2 [] c = "3" -> 3
    [] c = "4" -> 4 [] c = "5" -> 5 [] c = "6" -> 6 [] c = "7" -> 7
    [] c = "8" -> 8 [] c = "9" -> 9

AllDigits(s) == s # <<>> /\ \A k \in 1..Len(s) : s[k] \in DigitChars

RECURSIVE DecimalValue(_)
DecimalValue(s) ==
  IF s = <<>> THEN 0
  ELSE 10 * DecimalValue(SubSeq(s, 1, Len(s) - 1)) + DigitVal(s[Len(s)])

\* int(v) of the Python built-in: [exc, n], exc = "" when it returns n.
\*   int(None)  raises TypeError
\*   int(nan)   raises ValueError
\*   int(2.5)   truncates towards zero
\*   int("...") strips whitespace, takes an optional sign and decimal digits,
\*              and raises ValueError for anything else
py_int(v) ==
  CASE v.t = "int" -> [exc |-> "", n |-> v.n]
    [] v.t = "none" -> [exc |-> "TypeError", n |-> 0]
    [] v.t = "nan" -> [exc |-> "ValueError", n |-> 0]
    [] v.t = "float" ->
         [exc |-> "",
          n |-> IF v.n >= 0 THEN v.n \div (10 ^ v.e)
                ELSE 0 - ((0 - v.n) \div (10 ^ v.e))]
    [] v.t = "str" ->
         LET body == strip(v.s)
             signed == body # <<>> /\ Head(body) \in {"-", "+"}
             digits == IF signed THEN Tail(body) ELSE body
         IN IF AllDigits(digits)
            THEN [exc |-> "",
                  n |-> IF signed /\ Head(body) = "-"
                        THEN 0 - DecimalValue(digits)
                        ELSE DecimalValue(digits)]
            ELSE [exc |-> "ValueError", n |-> 0]

(***************************************************************************)
(* transform.py                                                            *)
(***************************************************************************)
VALUE_COLS ==
  <<"Value 1", "Value 2", "Value 3", "Value 4", "Value 5",
    "Value 6", "Value 7", "Value 8", "Value 9", "Value 10">>

ValueColSet == {VALUE_COLS[c] : c \in DOMAIN VALUE_COLS}

\* row.get(col, 0)
row_get(row, col) == IF col \in DOMAIN row THEN row[col] ELSE IntV(0)

\* mutant: the "or 0" fallback is missing
or_zero_missing(v) == v

\* v or 0
or_zero(v) == IF truthy(v) THEN v ELSE IntV(0)

\* int(row.get(col, 0) or 0)
count_of(row, col) == py_int(or_zero(row_get(row, col)))

\* The exception the dict comprehension of line 29 raises: that of the first
\* column, in VALUE_COLS order, whose conversion fails ("" when none does).
counts_exc(row) ==
  LET bad == {c \in DOMAIN VALUE_COLS : count_of(row, VALUE_COLS[c]).exc # ""}
  IN IF bad = {} THEN ""
     ELSE LET first == CHOOSE c \in bad : \A d \in bad : c <= d
          IN count_of(row, VALUE_COLS[first]).exc

\* line 29, when no conversion fails: the dict of the ten counts
counts(row) == [col \in ValueColSet |-> count_of(row, col).n]

\* mutant: min instead of max
total_min(cs) ==
  CHOOSE m \in {cs[col] : col \in ValueColSet} :
    \A col \in ValueColSet : m <= cs[col]

\* line 31: max(counts.values(), default=0); VALUE_COLS is not empty
total(cs) ==
  CHOOSE m \in {cs[col] : col \in ValueColSet} :
    \A col \in ValueColSet : cs[col] <= m

\* line 33
base_fields(row) == [k \in (DOMAIN row) \ ValueColSet |-> row[k]]

\* mutant: off by one in the comparison
flag_le(i, c) == IF i <= c THEN 1 ELSE 0

\* line 45: 1 if i < counts[col] else 0
flag(i, c) == IF i < c THEN 1 ELSE 0

\* mutant: the loop that sets the ten columns to 0 is missing
degenerate_row_bare(base) == base

\* lines 36-38: the base fields plus every count column set to 0
degenerate_row(base) == [col \in ValueColSet |-> IntV(0)] @@ base

\* lines 43-45: the i-th row of the expansion (i counted from 0)
new_row(base, cs, i) == [col \in ValueColSet |-> IntV(flag(i, cs[col]))] @@ base

\* mutant: no degenerate row, the loop runs for every total
expand_row_no_degenerate(row) ==
  LET exc == counts_exc(row)
      cs == counts(row)
      n == total(cs)
      base == base_fields(row)
  IN IF exc # "" THEN [exc |-> exc, out |-> <<>>]
     ELSE [exc |-> "", out |-> [i \in 1..n |-> new_row(base, cs, i - 1)]]

\* mutant: the degenerate row only for total = 0
expand_row_eq_zero(row) ==
  LET exc == counts_exc(row)
      cs == counts(row)
      n == total(cs)
      base == base_fields(row)
  IN IF exc # "" THEN [exc |-> exc, out |-> <<>>]
     ELSE IF n = 0 THEN [exc |-> "", out |-> <<degenerate_row(base)>>]
     ELSE [exc |-> "", out |-> [i \in 1..n |-> new_row(base, cs, i - 1)]]

\* expand_row: [exc, out], exc = "" when it returns the list out
expand_row(row) ==
  LET exc == counts_exc(row)
      cs == counts(row)
      n == total(cs)
      base == base_fields(row)
  IN IF exc # "" THEN [exc |-> exc, out |-> <<>>]
     ELSE IF n <= 0 THEN [exc |-> "", out |-> <<degenerate_row(base)>>]
     ELSE [exc |-> "", out |-> [i \in 1..n |-> new_row(base, cs, i - 1)]]

\* mutant: the new rows are put in front of the result
expand_rows_prepend ==
  /\ pc = "loop"
  /\ pos < Len(rows)
  /\ LET r == expand_row(rows[pos + 1])
     IN r.exc = "" /\ result' = r.out \o result
  /\ pos' = pos + 1
  /\ UNCHANGED <<rows, ret, pc>>

\* lines 54-55, one iteration in which expand_row returns:
\* result.extend(expand_row(row))
expand_rows_extend ==
  /\ pc = "loop"
  /\ pos < Len(rows)
  /\ LET r == expand_row(rows[pos + 1])
     IN r.exc = "" /\ result' = result \o r.out
  /\ pos' = pos + 1
  /\ UNCHANGED <<rows, ret, pc>>

\* mutant: the offending record is skipped and the loop goes on
expand_rows_skip ==
  /\ pc = "loop"
  /\ pos < Len(rows)
  /\ expand_row(rows[pos + 1]).exc # ""
  /\ pos' = pos + 1
  /\ UNCHANGED <<rows, result, ret, pc>>

\* lines 54-55, one iteration in which expand_row raises: there is no
\* try/except, the exception leaves expand_rows and nothing is returned
expand_rows_raise ==
  /\ pc = "loop"
  /\ pos < Len(rows)
  /\ LET r == expand_row(rows[pos + 1])
     IN /\ r.exc # ""
        /\ ret' = [kind |-> "exception", exc |-> r.exc, val |-> <<>>]
  /\ pc' = "raised"
  /\ UNCHANGED <<rows, pos, result>>

\* line 56: return result
expand_rows_return ==
  /\ pc = "loop"
  /\ pos = Len(rows)
  /\ ret' = [kind |-> "value", exc |-> "", val |-> result]
  /\ pc' = "done"
  /\ UNCHANGED <<rows, pos, result>>

(***************************************************************************)
(* Inputs of the transform.                                                *)
(***************************************************************************)
Absent == [t |-> "absent", n |-> 0, e |-> 0, s |-> <<>>]

\* Texts a count cell may hold.
CountStrings ==
  { <<>>, <<"a", "b", "c">>, <<"2">>, <<"0">>, <<" ", "1", " ">>,
    <<"-", "1">>, <<"1", ".", "5">>, <<" ">> }

CountValues ==
  {Absent, NoneV, NanV, FloatV(25, 1)}
    \cup {IntV(k) : k \in (0 - MaxNeg)..MaxCount}
    \cup {StrV(s) : s \in CountStrings}

\* What the second of the two chosen columns holds.
SecondValues ==
  { Absent, NoneV, IntV(1), IntV(MaxCount), IntV(0 - MaxNeg),
    StrV(<<"a", "b", "c">>), StrV(<<"2">>) }

\* What the count columns other than the two chosen ones hold.
FillValues == {Absent, NoneV, IntV(0), IntV(0 - MaxNeg)}

\* Pass-through parts: none at all, and one with every kind of value and a
\* key that only looks like a count column.
PassThroughs ==
  { <<>>,
    [Date |-> StrV(<<"0", "1", ".", "0", "2", ".", "2", "0", "2", "4">>),
     City |-> StrV(<<"K">>),
     long |-> StrV(<<"3", "0", ",", "5">>),
     lat |-> IntV(50),
     Note |-> NoneV,
     Extra |-> NanV] @@ ("Value 11" :> IntV(7)) }

ColIndex(col) == CHOOSE c \in DOMAIN VALUE_COLS : VALUE_COLS[c] = col

\* The record with pass-through part pt whose count columns a and b hold
\* va and vb and whose other count columns hold fill (Absent: no such key).
MakeRow(pt, fill, a, va, b, vb) ==
  LET cell(c) == IF c = a THEN va ELSE IF c = b THEN vb ELSE fill
      present == {c \in DOMAIN VALUE_COLS : cell(c) # Absent}
  IN [col \in {VALUE_COLS[c] : c \in present} |-> cell(ColIndex(col))] @@ pt

\* The two chosen columns: neighbours, or the first and the last.
ColumnPairs ==
  {p \in (DOMAIN VALUE_COLS) \X (DOMAIN VALUE_COLS) :
     p[2] = p[1] + 1 \/ (p[1] = 1 /\ p[2] = Len(VALUE_COLS))}

RowInputs ==
  { MakeRow(pt, fill, ab[1], va, ab[2], vb) :
      pt \in PassThroughs, fill \in FillValues,
      ab \in ColumnPairs,
      va \in CountValues, vb \in SecondValues }

\* The records batches of several are made of: those of city K have the
\* first count column only, those of city L the last one too.
BatchRowInputs ==
  { MakeRow([City |-> StrV(<<c>>)], Absent, 1, va,
            10, IF c = "L" THEN IntV(1) ELSE Absent) :
      c \in {"K", "L"},
      va \in {IntV(k) : k \in 0..MaxCount} \cup {NoneV, StrV(<<"a", "b", "c">>)} }

RECURSIVE SeqsUpTo(_, _)
SeqsUpTo(S, n) ==
  IF n = 0 THEN {<<>>}
  ELSE LET shorter == SeqsUpTo(S, n - 1)
       IN shorter \cup {Append(q, x) : q \in {r \in shorter : Len(r) = n - 1}, x \in S}

Batches == {<<r>> : r \in RowInputs} \cup SeqsUpTo(BatchRowInputs, MaxRows)

NoRet == [kind |-> "none", exc |-> "", val |-> <<>>]

FeaturesIdle ==
  /\ df = <<>> /\ fpos = 0 /\ features = <<>> /\ printed = <<>> /\ fpc = "idle"

UploadIdle == start = 0 /\ requests = <<>> /\ reports = <<>> /\ upc = "idle"

TransformIdle ==
  /\ rows = <<>> /\ pos = 0 /\ result = <<>> /\ ret = NoRet /\ pc = "idle"

\* expand_rows(rows) is called with a batch.
Init ==
  /\ rows \in Batches
  /\ pos = 0
  /\ result = <<>>
  /\ ret = NoRet
  /\ pc = "loop"
  /\ FeaturesIdle
  /\ UploadIdle

Next ==
  \/ expand_rows_extend /\ UNCHANGED <<fvars, uvars>>
  \/ expand_rows_raise /\ UNCHANGED <<fvars, uvars>>
  \/ expand_rows_return /\ UNCHANGED <<fvars, uvars>>

Spec == Init /\ [][Next]_vars

(***************************************************************************)
(* Properties of the transform.                                            *)
(***************************************************************************)
MaxOf(S) == CHOOSE m \in S : \A x \in S : x <= m

\* The dict d has the key with the value v.
Holds(d, key, v) == key \in DOMAIN d /\ d[key] = v

\* The rows expand_rows has expanded so far, and what expand_row gave.
Expanded == 1..pos
OutOf(k) == expand_row(rows[k]).out
CountsOf(k) == counts(rows[k])
NonNegativeCounts(cs) == \A col \in ValueColSet : cs[col] >= 0
AllZeroCounts(cs) == \A col \in ValueColSet : cs[col] = 0
Largest(cs) == MaxOf({cs[col] : col \in ValueColSet})

\* C1: a record whose ten counts resolve to non-negative integers expands to
\* exactly max(c_1..c_10, 1) records; with all counts zero, to exactly one
\* record whose ten flags are all 0.
C1_RecordCount ==
  \A k \in Expanded :
    LET cs == CountsOf(k)
        out == OutOf(k)
    IN NonNegativeCounts(cs) =>
         /\ Len(out) = MaxOf({Largest(cs), 1})
         /\ AllZeroCounts(cs) =>
              /\ Len(out) = 1
              /\ \A col \in ValueColSet : out[1][col] = IntV(0)

C1_Witness ==
  /\ pc = "done"
  /\ Len(rows) = 2
  /\ AllZeroCounts(CountsOf(1))
  /\ NonNegativeCounts(CountsOf(2))
  /\ Largest(CountsOf(2)) = MaxCount
  /\ Len(ret.val) = MaxCount + 1
  /\ \A col \in ValueColSet : ret.val[1][col] = IntV(0)

\* C2: with non-negative counts and N = max(c_k) > 0, the i-th record
\* (counted from 0, 0 <= i < N) has flag_k = 1 exactly when i < c_k and 0
\* otherwise: every column is c_k ones followed by zeros.
C2_PrefixFlags ==
  \A k \in Expanded :
    LET cs == CountsOf(k)
        out == OutOf(k)
    IN (NonNegativeCounts(cs) /\ Largest(cs) > 0) =>
         /\ DOMAIN out = 1..Largest(cs)
         /\ \A j \in DOMAIN out : \A col \in ValueColSet :
              /\ out[j][col] \in {IntV(0), IntV(1)}
              /\ out[j][col] = IntV(1) <=> (j - 1) < cs[col]

C2_Witness ==
  /\ pos = 1
  /\ Len(rows) = 1
  /\ Holds(rows[1], "Value 1", IntV(MaxCount))
  /\ Holds(rows[1], "Value 2", IntV(1))
  /\ Len(result) = MaxCount
  /\ Holds(result[1], "Value 2", IntV(1))
  /\ Holds(result[2], "Value 2", IntV(0))
  /\ Holds(result[MaxCount], "Value 1", IntV(1))
  /\ Holds(result[1], "Value 3", IntV(0))

RECURSIVE ColumnSum(_, _)
ColumnSum(out, col) ==
  IF out = <<>> THEN 0 ELSE Head(out)[col].n + ColumnSum(Tail(out), col)

\* C3: with non-negative counts, the flags of column k summed over the
\* records of one input give the count c_k, and c_k is at most the number
\* of records.
C3_ColumnSums ==
  \A k \in Expanded :
    LET cs == CountsOf(k)
        out == OutOf(k)
    IN NonNegativeCounts(cs) =>
         \A col \in ValueColSet :
           /\ ColumnSum(out, col) = cs[col]
           /\ cs[col] <= Len(out)

C3_Witness ==
  /\ pos = 1
  /\ Len(rows) = 1
  /\ Holds(rows[1], "Value 9", IntV(2))
  /\ Holds(rows[1], "Value 10", IntV(MaxCount))
  /\ "Value 1" \notin DOMAIN rows[1]
  /\ ColumnSum(result, "Value 9") = 2
  /\ ColumnSum(result, "Value 10") = MaxCount
  /\ ColumnSum(result, "Value 1") = 0

\* C4: every record expand_row returns has the key set (keys of the input
\* that are no count columns) plus the ten count columns, also when the
\* input lacks count columns, and every pass-through key keeps the value of
\* the source record, the degenerate record included.
C4_KeysAndPassThrough ==
  \A k \in Expanded :
    LET out == OutOf(k)
        passed == (DOMAIN rows[k]) \ ValueColSet
    IN \A j \in DOMAIN out :
         /\ DOMAIN out[j] = passed \cup ValueColSet
         /\ \A key \in passed : out[j][key] = rows[k][key]

C4_Witness ==
  /\ pc = "done"
  /\ Len(rows) = 1
  /\ Len(ret.val) = 1
  /\ (DOMAIN rows[1]) \cap ValueColSet = {}
  /\ "Value 11" \in DOMAIN rows[1]
  /\ Holds(ret.val[1], "Value 11", IntV(7))
  /\ Holds(ret.val[1], "Extra", NanV)
  /\ Holds(ret.val[1], "Value 10", IntV(0))

RECURSIVE Concatenation(_)
Concatenation(batch) ==
  IF batch = <<>> THEN <<>>
  ELSE expand_row(Head(batch)).out \o Concatenation(Tail(batch))

\* C5: expand_rows(records) is the concatenation, in order, of expand_row(r)
\* for each r: nothing for the empty batch, expand_row(r) for one record,
\* expand_row(r1) followed by expand_row(r2) for two.
C5_Concatenation ==
  /\ result = Concatenation(SubSeq(rows, 1, pos))
  /\ pc = "done" =>
       /\ ret.kind = "value"
       /\ ret.val = Concatenation(rows)
       /\ Len(rows) = 0 => ret.val = <<>>
       /\ Len(rows) = 1 => ret.val = OutOf(1)
       /\ Len(rows) = 2 => ret.val = OutOf(1) \o OutOf(2)

C5_Witness ==
  /\ pc = "done"
  /\ Len(rows) = 2
  /\ Len(OutOf(1)) = 2
  /\ Len(OutOf(2)) = MaxCount
  /\ "City" \in (DOMAIN rows[1]) \cap (DOMAIN rows[2])
  /\ rows[1]["City"] # rows[2]["City"]
  /\ ret.val[2]["City"] = rows[1]["City"]
  /\ ret.val[3]["City"] = rows[2]["City"]

\* Count cells by what they hold, told apart without the conversion.
Unparseable(v) ==
  \/ v.t = "nan"
  \/ v.t = "str" /\ v.s \in {<<"a", "b", "c">>, <<"1", ".", "5">>, <<" ">>}
Missing(v) == v = NoneV \/ v = StrV(<<>>)

HasUnparseable(row) ==
  \E col \in ValueColSet : col \in DOMAIN row /\ Unparseable(row[col])
OnlyMissing(row) ==
  \A col \in ValueColSet : col \in DOMAIN row => Missing(row[col])

\* C6: expand_row fails with ValueError when a count field is present and
\* cannot be parsed as an integer (such as "abc"); it does not fail when
\* count fields are absent, None or empty, each of which counts as 0.
C6_ParseError ==
  /\ \A k \in Expanded : ~HasUnparseable(rows[k])
  /\ pc = "raised" => (ret.exc = "ValueError" /\ HasUnparseable(rows[pos + 1]))
  /\ (pc = "loop" /\ pos < Len(rows)) =>
       LET row == rows[pos + 1]
           r == expand_row(row)
       IN /\ HasUnparseable(row) => r.exc = "ValueError"
          /\ ~HasUnparseable(row) =>
               /\ r.exc = ""
               /\ \A col \in ValueColSet :
                    (col \notin DOMAIN row \/ Missing(row[col]))
                      => counts(row)[col] = 0
          /\ OnlyMissing(row) =>
               (r.exc = "" /\ Len(r.out) = 1 /\ AllZeroCounts(counts(row)))

C6_Witness ==
  /\ pc = "raised"
  /\ ret.exc = "ValueError"
  /\ Len(rows) = 2
  /\ pos = 1
  /\ Holds(rows[1], "Value 1", NoneV)
  /\ (DOMAIN rows[1]) \cap ValueColSet = {"Value 1"}
  /\ Len(result) = 1
  /\ Holds(rows[2], "Value 1", StrV(<<"a", "b", "c">>))

\* C9: when a batch holds a record with a count field that cannot be
\* parsed, the error leaves expand_rows and the whole batch fails: nothing
\* is returned, not even the records of the valid rows before it, and the
\* offending record is not skipped.
C9_BatchFails ==
  /\ (\E k \in 1..Len(rows) : HasUnparseable(rows[k])) => ret.kind # "value"
  /\ pc = "raised" => (ret.kind = "exception" /\ ret.val = <<>>)
  /\ \A k \in Expanded : ~HasUnparseable(rows[k])

C9_Witness ==
  /\ pc = "raised"
  /\ Len(rows) = 2
  /\ pos = 1
  /\ Len(result) = MaxCount
  /\ HasUnparseable(rows[2])
  /\ ret.kind = "exception"
  /\ ret.val = <<>>

\* The record with every negative count replaced by 0.
Clamped(row) ==
  [key \in DOMAIN row |->
     IF key \in ValueColSet /\ count_of(row, key).n < 0 THEN IntV(0)
     ELSE row[key]]

\* C10: negative counts are treated as zero: the output for a record with
\* negative counts is the output for the record with each negative count
\* replaced by 0, so there is at least one record, every flag is 0 or 1 and
\* a negative column is all zeros.
C10_NegativeAsZero ==
  \A k \in Expanded :
    LET cs == CountsOf(k)
        out == OutOf(k)
    IN (\E col \in ValueColSet : cs[col] < 0) =>
         /\ out = expand_row(Clamped(rows[k])).out
         /\ Len(out) >= 1
         /\ \A j \in DOMAIN out : \A col \in ValueColSet :
              /\ out[j][col] \in {IntV(0), IntV(1)}
              /\ cs[col] < 0 => out[j][col] = IntV(0)

C10_Witness ==
  /\ pc = "done"
  /\ Len(rows) = 1
  /\ \A col \in ValueColSet : CountsOf(1)[col] < 0
  /\ Len(ret.val) = 1

(***************************************************************************)
(* arcgis_upload.py: records to features                                   *)
(***************************************************************************)
\* value.replace(",", ".")
replace_comma(s) == [k \in DOMAIN s |-> IF s[k] = "," THEN "." ELSE s[k]]

\* The position of the first c in s, 0 when there is none.
IndexOf(s, c) ==
  IF \E k \in DOMAIN s : s[k] = c
  THEN CHOOSE k \in DOMAIN s : s[k] = c /\ \A j \in 1..(k - 1) : s[j] # c
  ELSE 0

\* float("..."): an optional sign, digits with at most one point among them
\* and at least one digit; ValueError otherwise.  [exc, x]
py_float_str(s) ==
  LET body == strip(s)
      signed == body # <<>> /\ Head(body) \in {"-", "+"}
      rest == IF signed THEN Tail(body) ELSE body
      dot == IndexOf(rest, ".")
      whole == IF dot = 0 THEN rest ELSE SubSeq(rest, 1, dot - 1)
      frac == IF dot = 0 THEN <<>> ELSE SubSeq(rest, dot + 1, Len(rest))
      digits == whole \o frac
  IN IF AllDigits(digits)
     THEN [exc |-> "",
           x |-> FloatV(IF signed /\ Head(body) = "-"
                        THEN 0 - DecimalValue(digits)
                        ELSE DecimalValue(digits),
                        Len(frac))]
     ELSE [exc |-> "ValueError", x |-> NanV]

\* mutant: the decimal comma is not replaced
parse_coord_no_comma(value) ==
  CASE value.t = "none" -> [exc |-> "ValueError", x |-> NanV]
    [] value.t = "str" ->
         IF strip(value.s) = <<>> THEN [exc |-> "ValueError", x |-> NanV]
         ELSE py_float_str(strip(value.s))
    [] value.t = "int" -> [exc |-> "", x |-> FloatV(value.n, 0)]
    [] OTHER -> [exc |-> "", x |-> value]

\* _parse_coord: [exc, x], exc = "" when it returns the float x
parse_coord(value) ==
  CASE value.t = "none" -> [exc |-> "ValueError", x |-> NanV]
    [] value.t = "str" ->
         LET text == replace_comma(strip(value.s))
         IN IF text = <<>> THEN [exc |-> "ValueError", x |-> NanV]
            ELSE py_float_str(text)
    [] value.t = "int" -> [exc |-> "", x |-> FloatV(value.n, 0)]
    [] OTHER -> [exc |-> "", x |-> value]

\* str(value), for the values a date cell holds
py_str(value) ==
  CASE value.t = "str" -> value.s
    [] value.t = "none" -> <<"N", "o", "n", "e">>
    [] value.t = "nan" -> <<"n", "a", "n">>
    [] OTHER -> <<"?">>

IsLeap(y) == (y % 4 = 0 /\ y % 100 # 0) \/ y % 400 = 0

DaysInMonth(y, m) ==
  IF m = 2 THEN (IF IsLeap(y) THEN 29 ELSE 28)
  ELSE IF m \in {4, 6, 9, 11} THEN 30 ELSE 31

\* Days from 1970-01-01 to the day d of month m of year y.
DaysFromEpoch(y, m, d) ==
  LET yy == IF m <= 2 THEN y - 1 ELSE y
      era == yy \div 400
      yoe == yy - era * 400
      mp == IF m > 2 THEN m - 3 ELSE m + 9
      doy == (153 * mp + 2) \div 5 + d - 1
      doe == yoe * 365 + yoe \div 4 - yoe \div 100 + doy
  IN era * 146097 + doe - 719468

\* _parse_uk_date_to_epoch_ms: strptime(date_str, "%d.%m.%Y") as UTC, in
\* milliseconds; ValueError when the text is no such date.  [exc, ms], ms the
\* value MillisV(seconds)
parse_uk_date_to_epoch_ms(date_str) ==
  LET dot1 == IndexOf(date_str, ".")
      after == IF dot1 = 0 THEN <<>> ELSE SubSeq(date_str, dot1 + 1, Len(date_str))
      dot2 == IndexOf(after, ".")
      dd == IF dot1 = 0 THEN <<>> ELSE SubSeq(date_str, 1, dot1 - 1)
      mm == IF dot2 = 0 THEN <<>> ELSE SubSeq(after, 1, dot2 - 1)
      yyyy == IF dot2 = 0 THEN <<>> ELSE SubSeq(after, dot2 + 1, Len(after))
      shaped ==
        /\ AllDigits(dd) /\ Len(dd) \in {1, 2}
        /\ AllDigits(mm) /\ Len(mm) \in {1, 2}
        /\ AllDigits(yyyy) /\ Len(yyyy) = 4
      d == DecimalValue(dd)
      m == DecimalValue(mm)
      y == DecimalValue(yyyy)
  IN IF shaped /\ y >= 1 /\ m \in 1..12 /\ d >= 1 /\ d <= DaysInMonth(y, m)
     THEN [exc |-> "", ms |-> MillisV(DaysFromEpoch(y, m, d) * 86400)]
     ELSE [exc |-> "ValueError", ms |-> MillisV(0)]

\* _build_field_mapping: DataFrame column -> field of the layer
build_field_mapping ==
  [Date |-> "d_date", Region |-> "t_region", City |-> "t_city"]
    @@ ("Value 1" :> "i_value_1") @@ ("Value 2" :> "i_value_2")
    @@ ("Value 3" :> "i_value_3") @@ ("Value 4" :> "i_value_4")
    @@ ("Value 5" :> "i_value_5") @@ ("Value 6" :> "i_value_6")
    @@ ("Value 7" :> "i_value_7") @@ ("Value 8" :> "i_value_8")
    @@ ("Value 9" :> "i_value_9") @@ ("Value 10" :> "i_value_10")

\* lines 93-104: the attributes of a record; [exc, attributes]
attributes_of(row) ==
  LET mapping == build_field_mapping
      cols == (DOMAIN mapping) \cap (DOMAIN row)
      date == IF "Date" \in cols
              THEN parse_uk_date_to_epoch_ms(py_str(row["Date"]))
              ELSE [exc |-> "", ms |-> MillisV(0)]
  IN IF date.exc # "" THEN [exc |-> date.exc, attributes |-> <<>>]
     ELSE [exc |-> "",
           attributes |->
             [field \in {mapping[c] : c \in cols} |->
                LET c == CHOOSE col \in cols : mapping[col] = field
                IN IF c = "Date" THEN date.ms ELSE row[c]]]

\* lines 78-79: the exception of the try block ("" when both coordinates
\* parse); a record without a long or lat key raises KeyError
coords_exc(row) ==
  IF "long" \notin DOMAIN row THEN "KeyError"
  ELSE IF parse_coord(row["long"]).exc # "" THEN parse_coord(row["long"]).exc
  ELSE IF "lat" \notin DOMAIN row THEN "KeyError"
  ELSE parse_coord(row["lat"]).exc

\* lines 86-90
geometry_of(row) ==
  [x |-> parse_coord(row["long"]).x,
   y |-> parse_coord(row["lat"]).x,
   spatialReference |-> [wkid |-> 4326]]

\* mutant: the exception of a coordinate is not caught
df_row_abort ==
  /\ fpc = "loop"
  /\ fpos < Len(df)
  /\ coords_exc(df[fpos + 1]) # ""
  /\ fpc' = "raised"
  /\ UNCHANGED <<df, fpos, features, printed>>

\* lines 75-84, an iteration whose coordinates do not parse: the row number
\* is printed and the loop goes on with the next record
df_row_skip ==
  /\ fpc = "loop"
  /\ fpos < Len(df)
  /\ coords_exc(df[fpos + 1]) # ""
  /\ printed' = Append(printed, fpos + 1)
  /\ fpos' = fpos + 1
  /\ UNCHANGED <<df, features, fpc>>

\* lines 75-106, an iteration that appends a feature
df_row_append ==
  /\ fpc = "loop"
  /\ fpos < Len(df)
  /\ coords_exc(df[fpos + 1]) = ""
  /\ LET a == attributes_of(df[fpos + 1])
     IN /\ a.exc = ""
        /\ features' = Append(features,
                              [attributes |-> a.attributes,
                               geometry |-> geometry_of(df[fpos + 1])])
  /\ fpos' = fpos + 1
  /\ UNCHANGED <<df, printed, fpc>>

\* line 102 outside the try block: a date that is no DD.MM.YYYY date raises
\* and the exception leaves _df_to_features
df_row_raise ==
  /\ fpc = "loop"
  /\ fpos < Len(df)
  /\ coords_exc(df[fpos + 1]) = ""
  /\ attributes_of(df[fpos + 1]).exc # ""
  /\ fpc' = "raised"
  /\ UNCHANGED <<df, fpos, features, printed>>

\* line 108: return features
df_return ==
  /\ fpc = "loop"
  /\ fpos = Len(df)
  /\ fpc' = "done"
  /\ UNCHANGED <<df, fpos, features, printed>>

(***************************************************************************)
(* Inputs of _df_to_features: a DataFrame, every record with the same      *)
(* columns.                                                                *)
(***************************************************************************)
MaxDfRows == 2

GoodDate == StrV(<<"0", "2", ".", "0", "1", ".", "1", "9", "7", "0">>)
LeapDate == StrV(<<"2", "9", ".", "2", ".", "2", "0", "2", "4">>)
NoDate == StrV(<<"2", "0", "2", "4", "-", "0", "2", "-", "0", "1">>)
BadDate == StrV(<<"3", "0", ".", "0", "2", ".", "2", "0", "2", "4">>)

LongValues ==
  { NoneV, NanV, IntV(30), FloatV(305, 1),
    StrV(<<>>), StrV(<<" ">>), StrV(<<"a", "b", "c">>),
    StrV(<<"3", "0", ",", "5", "0">>), StrV(<<" ", "-", "3", ".", "2", "5">>),
    StrV(<<"3", ",", "0", ",", "5">>) }

LatValues == { StrV(<<"5", "0", ",", "2", "5">>), NoneV }

DfRecord(withDate, x, y, d) ==
  (IF withDate THEN [Date |-> d] ELSE <<>>)
    @@ [long |-> x, lat |-> y, City |-> StrV(<<"K">>)]
    @@ ("Value 1" :> IntV(1))

\* Every long value beside a good lat and date, and every lat and date
\* beside a good long value.
DfRecords(withDate) ==
  { DfRecord(withDate, x, StrV(<<"5", "0", ",", "2", "5">>), GoodDate) :
      x \in LongValues }
    \cup { DfRecord(withDate, IntV(30), y, d) :
             y \in LatValues, d \in {GoodDate, LeapDate, BadDate, NoDate} }

\* A DataFrame without its lat column: every row["lat"] raises KeyError.
NoLatRecords == { [long |-> x, City |-> StrV(<<"K">>)] : x \in LongValues }

DataFrames ==
  SeqsUpTo(DfRecords(TRUE), MaxDfRows)
    \cup SeqsUpTo(DfRecords(FALSE), MaxDfRows)
    \cup SeqsUpTo(NoLatRecords, MaxDfRows)

\* _df_to_features(df) is called with a DataFrame.
InitFeatures ==
  /\ df \in DataFrames
  /\ fpos = 0
  /\ features = <<>>
  /\ printed = <<>>
  /\ fpc = "loop"
  /\ TransformIdle
  /\ UploadIdle

NextFeatures ==
  \/ df_row_skip /\ UNCHANGED <<tvars, uvars>>
  \/ df_row_append /\ UNCHANGED <<tvars, uvars>>
  \/ df_row_raise /\ UNCHANGED <<tvars, uvars>>
  \/ df_return /\ UNCHANGED <<tvars, uvars>>

SpecFeatures == InitFeatures /\ [][NextFeatures]_vars

\* The coordinate values that parse, with the float each stands for, and
\* those that do not, told apart without the conversion.
ParsedCoord(v) ==
  CASE v = IntV(30) -> [t |-> "float", n |-> 30, e |-> 0, s |-> <<>>]
    [] v = FloatV(305, 1) -> v
    [] v = NanV -> NanV
    [] v = StrV(<<"3", "0", ",", "5", "0">>) ->
         [t |-> "float", n |-> 305, e |-> 1, s |-> <<>>]
    [] v = StrV(<<" ", "-", "3", ".", "2", "5">>) ->
         [t |-> "float", n |-> 0 - 325, e |-> 2, s |-> <<>>]
    [] v = StrV(<<"5", "0", ",", "2", "5">>) ->
         [t |-> "float", n |-> 5025, e |-> 2, s |-> <<>>]

Malformed(v) ==
  v \in { NoneV, StrV(<<>>), StrV(<<" ">>), StrV(<<"a", "b", "c">>),
          StrV(<<"3", ",", "0", ",", "5">>) }

MalformedRow(row) ==
  \/ "long" \notin DOMAIN row \/ Malformed(row["long"])
  \/ "lat" \notin DOMAIN row \/ Malformed(row["lat"])

\* The row numbers (from 1) of the malformed ones among the first n records.
RECURSIVE MalformedUpTo(_)
MalformedUpTo(n) ==
  IF n = 0 THEN <<>>
  ELSE IF MalformedRow(df[n]) THEN Append(MalformedUpTo(n - 1), n)
  ELSE MalformedUpTo(n - 1)

\* The records among the first n whose two coordinates parse, in order.
RECURSIVE WellFormedUpTo(_)
WellFormedUpTo(n) ==
  IF n = 0 THEN <<>>
  ELSE IF MalformedRow(df[n]) THEN WellFormedUpTo(n - 1)
  ELSE Append(WellFormedUpTo(n - 1), df[n])

batch_size == 200

Min(a, b) == IF a <= b THEN a ELSE b

\* features[start : start + batch_size]
chunk_at(from) ==
  SubSeq(features, from + 1, Min(from + batch_size, Len(features)))

\* sum(1 for r in results if r.get("success")) and its opposite
RECURSIVE count_success(_, _)
count_success(results, wanted) ==
  IF results = <<>> THEN 0
  ELSE (IF Head(results).success = wanted THEN 1 ELSE 0)
         + count_success(Tail(results), wanted)

\* [r for r in add_results if not r.get("success")][:3]
RECURSIVE failures_of(_)
failures_of(results) ==
  IF results = <<>> THEN <<>>
  ELSE IF Head(results).success THEN failures_of(Tail(results))
  ELSE <<Head(results)>> \o failures_of(Tail(results))

first_errors(results) ==
  LET failed == failures_of(results) IN SubSeq(failed, 1, Min(3, Len(failed)))

\* next(r for r in add_results if r.get("success"))
first_success(results) ==
  results[CHOOSE k \in DOMAIN results :
            results[k].success /\ \A j \in 1..(k - 1) : ~results[j].success]

\* What the service may answer to an add request and to an update request.
Res(ok, oid) == [success |-> ok, objectId |-> oid]

AddResponses ==
  { [error |-> TRUE, addResults |-> <<>>],
    [error |-> TRUE, addResults |-> <<Res(TRUE, 7)>>],
    [error |-> FALSE, addResults |-> <<>>],
    [error |-> FALSE, addResults |-> <<Res(TRUE, 7)>>],
    [error |-> FALSE, addResults |-> <<Res(FALSE, 0)>>],
    [error |-> FALSE, addResults |-> <<Res(FALSE, 0), Res(TRUE, 8), Res(TRUE, 9)>>],
    [error |-> FALSE,
     addResults |-> <<Res(FALSE, 0), Res(FALSE, 0), Res(FALSE, 0), Res(FALSE, 0)>>] }

UpdateResponses ==
  { [updateResults |-> <<Res(TRUE, 7)>>], [updateResults |-> <<Res(FALSE, 7)>>] }

\* A printed line: what it is about, the number of the batch, a count.
Report(kind, batch, n) == [kind |-> kind, batch |-> batch, n |-> n]

AddRequest(chunk, response) ==
  [op |-> "adds", chunk |-> chunk, oid |-> 0, response |-> response]

UpdateRequest(oid) ==
  [op |-> "updates", chunk |-> <<>>, oid |-> oid,
   response |-> [error |-> FALSE, addResults |-> <<>>]]

\* mutant: no break after a request-level error
upload_batch_error_goes_on ==
  /\ upc = "loop"
  /\ start < Len(features)
  /\ \E response \in AddResponses :
       /\ response.error
       /\ requests' = Append(requests, AddRequest(chunk_at(start), response))
       /\ reports' = Append(reports, Report("request error", start \div batch_size + 1, 0))
  /\ start' = start + batch_size
  /\ UNCHANGED <<features, upc>>

\* lines 157-170: the response holds "error": it is printed and the loop
\* is left
upload_batch_error ==
  /\ upc = "loop"
  /\ start < Len(features)
  /\ \E response \in AddResponses :
       /\ response.error
       /\ requests' = Append(requests, AddRequest(chunk_at(start), response))
       /\ reports' = Append(reports, Report("request error", start \div batch_size + 1, 0))
  /\ upc' = "done"
  /\ UNCHANGED <<features, start>>

\* lines 157-176: no "error" and no addResults: printed, and the loop is left
upload_batch_no_results ==
  /\ upc = "loop"
  /\ start < Len(features)
  /\ \E response \in AddResponses :
       /\ ~response.error
       /\ response.addResults = <<>>
       /\ requests' = Append(requests, AddRequest(chunk_at(start), response))
       /\ reports' = Append(reports, Report("no addResults", start \div batch_size + 1, 0))
  /\ upc' = "done"
  /\ UNCHANGED <<features, start>>

\* lines 157-204: a response with addResults: the failures are counted and
\* the first three printed, the first added feature is updated, and the loop
\* goes on with the next chunk
upload_batch_results ==
  /\ upc = "loop"
  /\ start < Len(features)
  /\ \E response \in AddResponses, upd_result \in UpdateResponses :
       LET add_results == response.addResults
           ok == count_success(add_results, TRUE)
           fail == count_success(add_results, FALSE)
           batch == start \div batch_size + 1
           errors == IF fail > 0
                     THEN <<Report("errors", batch, Len(first_errors(add_results)))>>
                     ELSE <<>>
           added == <<Report("added", batch, ok), Report("failed", batch, fail)>>
           updated == IF ok > 0
                      THEN <<Report("updated", batch,
                                    count_success(upd_result.updateResults, TRUE))>>
                      ELSE <<>>
       IN /\ ~response.error
          /\ add_results # <<>>
          \* no update request is sent when nothing was added
          /\ (ok = 0 => upd_result = CHOOSE u \in UpdateResponses : TRUE)
          /\ requests' =
               Append(requests, AddRequest(chunk_at(start), response))
                 \o (IF ok > 0
                     THEN <<UpdateRequest(first_success(add_results).objectId)>>
                     ELSE <<>>)
          /\ reports' = reports \o errors \o added \o updated
  /\ start' = start + batch_size
  /\ UNCHANGED <<features, upc>>

\* the range of line 156 is exhausted: the function returns
upload_finish ==
  /\ upc = "loop"
  /\ start >= Len(features)
  /\ upc' = "done"
  /\ UNCHANGED <<features, start, requests, reports>>

MaxFeatures == 401

\* The loop starts with the list of features of line 152.
InitUpload ==
  /\ \E n \in 0..MaxFeatures : features = [k \in 1..n |-> k]
  /\ start = 0
  /\ requests = <<>>
  /\ reports = <<>>
  /\ upc = "loop"
  /\ df = <<>> /\ fpos = 0 /\ printed = <<>> /\ fpc = "done"
  /\ TransformIdle

NextUpload ==
  \/ upload_batch_error /\ UNCHANGED <<tvars, df, fpos, printed, fpc>>
  \/ upload_batch_no_results /\ UNCHANGED <<tvars, df, fpos, printed, fpc>>
  \/ upload_batch_results /\ UNCHANGED <<tvars, df, fpos, printed, fpc>>
  \/ upload_finish /\ UNCHANGED <<tvars, df, fpos, printed, fpc>>

SpecUpload == InitUpload /\ [][NextUpload]_vars

\* The add requests among the calls, in the order they were issued.
RECURSIVE AddsOf(_)
AddsOf(calls) ==
  IF calls = <<>> THEN <<>>
  ELSE IF Head(calls).op = "adds" THEN <<Head(calls)>> \o AddsOf(Tail(calls))
  ELSE AddsOf(Tail(calls))

RECURSIVE ChunksJoined(_)
ChunksJoined(adds) ==
  IF adds = <<>> THEN <<>> ELSE Head(adds).chunk \o ChunksJoined(Tail(adds))

RequestFailure(response) == response.error
OnlyRecordFailures(response) ==
  /\ ~response.error
  /\ response.addResults # <<>>
  /\ \E k \in DOMAIN response.addResults : ~response.addResults[k].success

\* C7: the features are sent in consecutive chunks of at most 200, in their
\* order; after a request-level failure no further add request is issued;
\* a response with per-record failures only is reported and the upload goes
\* on with the next chunk.
C7_UploadLoop ==
  LET adds == AddsOf(requests)
      sent == ChunksJoined(adds)
  IN /\ \A k \in DOMAIN adds :
          /\ Len(adds[k].chunk) \in 1..200
          /\ k < Len(adds) => Len(adds[k].chunk) = 200
          /\ RequestFailure(adds[k].response) => k = Len(adds)
     /\ \A j \in DOMAIN requests :
          (requests[j].op = "adds" /\ RequestFailure(requests[j].response))
            => (j = Len(requests) /\ upc = "done")
     /\ Len(sent) <= Len(features)
     /\ sent = SubSeq(features, 1, Len(sent))
     /\ (adds # <<>> /\ OnlyRecordFailures(adds[Len(adds)].response)) =>
          /\ start = Len(adds) * 200
          /\ upc = "done" => sent = features
          /\ \E j \in DOMAIN reports :
               reports[j].kind = "errors" /\ reports[j].batch = Len(adds)
     /\ (upc = "done" /\ sent # features) =>
          (adds # <<>> /\ ~OnlyRecordFailures(adds[Len(adds)].response))

C7_Witness ==
  LET adds == AddsOf(requests)
  IN /\ Len(features) = MaxFeatures
     /\ Len(adds) = 3
     /\ OnlyRecordFailures(adds[1].response)
     /\ OnlyRecordFailures(adds[2].response)
     /\ RequestFailure(adds[3].response)
     /\ adds[2].chunk[1] = 201
     /\ Len(adds[3].chunk) = 1
     /\ upc = "done"

====
